---- MODULE Spec2Model ----
(***************************************************************************)
(* hud-browser: the scenario evaluation protocol (scenarios/game_2048.py,  *)
(* scenarios/todo.py) and the CDP connection discovery (tools/browser.py). *)
(*                                                                         *)
(* A scenario is an async generator.  The host resumes it (anext / asend / *)
(* athrow); between two awaits the generator runs atomically.  A run is    *)
(* modelled by the position of the generator (pc), the values it yielded   *)
(* to the host, the requests it sent to the backend and the exception that *)
(* left it, if any.  The backend is external: every response is drawn      *)
(* from the set of responses httpx can deliver.                            *)
(*                                                                         *)
(* Numbers.  Python floats are modelled as exact reals: a quotient of two  *)
(* integers is the record Q(a, b), the quotient of two logarithms is the   *)
(* record LogRatio(h, t).  Time is counted in ticks of half a second.      *)
(***************************************************************************)
EXTENDS Integers, Sequences, FiniteSets, TLC

------------------------------------------------------------------------------
(* Bounds of the model *)

\* largest integer a scenario parameter is drawn from (the smallest is -1)
MaxParam == 5

\* largest integer the backend reports in a state field (the smallest is -1)
MaxObserved == 10

\* largest numerator / denominator of the target_rate parameter
MaxRateNum == 2

MaxRateDen == 2

\* longest list of todos the backend reports
MaxTodos == 2

\* the discovery endpoint becomes ready after at most this many polls
MaxReadyAfter == 12

\* calls of launch_app the agent makes
MaxCalls == 2

\* scenario runs executing concurrently
MaxRuns == 2

\* tasks the test script makes
MaxTasks == 4

------------------------------------------------------------------------------
(* Optional values: a dictionary key that may be missing is the empty set  *)
(* (missing) or a singleton (present).                                     *)

Opt(S) == {{}} \cup {{v} : v \in S}

\* dict.get(key, default)
Get(o, default) == IF o = {} THEN default ELSE CHOOSE v \in o : TRUE

------------------------------------------------------------------------------
(* Exact arithmetic for the rewards *)

Abs(x) == IF x < 0 THEN -x ELSE x

RECURSIVE GCD(_, _)
GCD(x, y) == IF y = 0 THEN x ELSE GCD(y, x % y)

\* the real number a / b (b # 0), in lowest terms with a positive denominator
Q(a, b) ==
  LET g == GCD(Abs(a), Abs(b))
      s == IF b < 0 THEN -1 ELSE 1
  IN  [k |-> "q", a |-> s * (a \div g), b |-> s * (b \div g)]

\* the real number ln(h) / ln(t), for h > 1 and t > 1
LogRatio(h, t) == [k |-> "log", a |-> h, b |-> t]

Zero == Q(0, 1)

One == Q(1, 1)

\* x / y for two quotients, y # 0
QDiv(x, y) == Q(x.a * y.b, x.b * y.a)

\* r >= 1.0
GeOne(r) == r.a >= r.b

\* r1 <= r2 for two quotients
QLeq(r1, r2) == r1.a * r2.b <= r2.a * r1.b

\* min(1.0, r)
MinOne(r) == IF GeOne(r) THEN One ELSE r

\* 0.0 <= r <= 1.0
InUnit(r) ==
  IF r.k = "q" THEN r.a >= 0 /\ r.a <= r.b
  ELSE r.a > 1 /\ r.a <= r.b

------------------------------------------------------------------------------
(* The backend as seen through httpx *)

\* port of BACKEND_URL
BackendPort == 8000

\* exceptions an httpx request raises
NetErrors == {"ReadTimeout", "ConnectError"}

\* a response: exc # "none" means the request raised; json is what
\* response.json() produces ("invalid": it raises), obj the decoded object
\* (each key present or missing), arr the decoded array
Resp(exc, status_code, json, obj, arr) ==
  [exc |-> exc, status_code |-> status_code, json |-> json, obj |-> obj, arr |-> arr]

NoObj == [none |-> {}]

Raise(e) == Resp(e, 0, "invalid", NoObj, <<>>)

\* a response whose body is not JSON
Plain(status_code) == Resp("none", status_code, "invalid", NoObj, <<>>)

\* ports the backend may bind an application to
AppPorts == {5000, 5001, 5002}

LaunchResponses ==
  {Raise(e) : e \in NetErrors}
  \cup {Plain(c) : c \in {200, 404, 500}}
  \cup {Resp("none", 200, "array", NoObj, <<>>)}
  \cup {Resp("none", 200, "object", [backend_port |-> p], <<>>) : p \in Opt(AppPorts)}

InitResponses == {Raise(e) : e \in NetErrors} \cup {Plain(c) : c \in {200, 500}}

\* integers a state field may carry
Observed == -1 .. MaxObserved

GameStates == [highest_tile : Opt(Observed), score : Opt(Observed), won : Opt(BOOLEAN)]

Stats == [total_items : Opt(Observed), completed_items : Opt(Observed)]

Titles == {"a", "b"}

\* an element of the todos array: an object with or without a title, or
\* something that is not an object
Todo == [dict : {TRUE}, title : Opt(Titles)] \cup {[dict |-> FALSE, title |-> {}]}

TodoLists == UNION {[1 .. n -> Todo] : n \in 0 .. MaxTodos}

------------------------------------------------------------------------------
(* The six scenarios *)

Scenarios == {"2048-reach-tile", "2048-near-win", "2048-score",
              "todo-complete", "todo-create", "todo-completion-rate"}

Params == -1 .. MaxParam

\* target_rate = n / d
Rates == {Q(n, d) : n \in -1 .. MaxRateNum, d \in 1 .. MaxRateDen}

\* targets of 2048-near-win: the small ones, the two near_win has a fixed
\* board for, and two on either side of the largest literal tile of the
\* computed board
NearWinTargets == Params \cup {16, 32, 1024, 2048}

\* the keyword arguments a scenario accepts (type coercion only)
Kwargs(s) ==
  CASE s = "2048-reach-tile"      -> [target : Params, board_size : {4}]
    [] s = "2048-near-win"        -> [target : NearWinTargets]
    [] s = "2048-score"           -> [target_score : Params]
    [] s = "todo-complete"        -> [expected_count : Params]
    [] s = "todo-create"          -> [title : Titles]
    [] s = "todo-completion-rate" -> [target_rate : Rates]

app_name(s) ==
  IF s \in {"2048-reach-tile", "2048-near-win", "2048-score"} THEN "2048" ELSE "todo"

\* app_info.get("backend_port", <default>)
default_port(s) == IF app_name(s) = "2048" THEN 5001 ELSE 5000

Request(method, port, path) == [method |-> method, port |-> port, path |-> path]

launch_request == Request("POST", BackendPort, "/apps/launch")

\* init_request replaced by a fetch of the state during setup
init_request_fetch(s, port) ==
  CASE s \in {"2048-reach-tile", "2048-near-win", "2048-score"}
                                  -> Request("GET", port, "/api/game/state")
    [] s \in {"todo-complete", "todo-completion-rate"}
                                  -> Request("GET", port, "/api/eval/stats")
    [] s = "todo-create"          -> Request("GET", port, "/api/eval/todos")

\* the state-initialization request sent after a successful launch
init_request(s, port) ==
  CASE s = "2048-reach-tile"      -> Request("POST", port, "/api/game/new")
    [] s = "2048-near-win"        -> Request("POST", port, "/api/eval/set_board")
    [] s = "2048-score"           -> Request("POST", port, "/api/game/new")
    [] s = "todo-complete"        -> Request("POST", port, "/api/eval/seed")
    [] s = "todo-create"          -> Request("DELETE", port, "/api/eval/reset")
    [] s = "todo-completion-rate" -> Request("POST", port, "/api/eval/seed")

\* the board near_win builds for a target (// is floor division)
near_win_board(target) ==
  IF target = 2048
    THEN <<<<1024, 1024, 256, 128>>, <<512, 256, 64, 32>>,
           <<128, 64, 16, 8>>, <<32, 16, 4, 2>>>>
  ELSE IF target = 1024
    THEN <<<<512, 512, 128, 64>>, <<256, 128, 32, 16>>,
           <<64, 32, 8, 4>>, <<16, 8, 2, 0>>>>
  ELSE LET half    == target \div 2
           quarter == target \div 4
       IN  <<<<half, half, quarter, quarter \div 2>>,
             <<quarter, quarter \div 2, 16, 8>>,
             <<16, 8, 4, 2>>,
             <<4, 2, 0, 0>>>>

\* sum(sum(row) for row in board)
board_sum(board) ==
  LET row_sum(row) == row[1] + row[2] + row[3] + row[4]
  IN  row_sum(board[1]) + row_sum(board[2]) + row_sum(board[3]) + row_sum(board[4])

\* the JSON body of the state-initialization request
init_json_of(s, kw) ==
  CASE s = "2048-reach-tile" ->
         [board_size |-> kw.board_size, target_tile |-> kw.target]
    [] s = "2048-near-win" ->
         [board |-> near_win_board(kw.target),
          score |-> board_sum(near_win_board(kw.target)) * 2,
          moves |-> 150]
    [] OTHER -> [none |-> {}]

\* state_request sent as a POST, which the application may act on
state_request_post(s, port) ==
  CASE s \in {"2048-reach-tile", "2048-near-win", "2048-score"}
                                  -> Request("POST", port, "/api/game/state")
    [] s \in {"todo-complete", "todo-completion-rate"}
                                  -> Request("POST", port, "/api/eval/stats")
    [] s = "todo-create"          -> Request("POST", port, "/api/eval/todos")

\* the state fetch of the evaluation phase
state_request(s, port) ==
  CASE s \in {"2048-reach-tile", "2048-near-win", "2048-score"}
                                  -> Request("GET", port, "/api/game/state")
    [] s \in {"todo-complete", "todo-completion-rate"}
                                  -> Request("GET", port, "/api/eval/stats")
    [] s = "todo-create"          -> Request("GET", port, "/api/eval/todos")

\* bodies the state endpoint of scenario s may answer with
StateBodies(s) ==
  CASE app_name(s) = "2048" ->
         {Resp("none", 200, "object", g, <<>>) : g \in GameStates}
         \cup {Resp("none", 200, "array", NoObj, <<>>)}
    [] s = "todo-create" ->
         {Resp("none", 200, "array", NoObj, l) : l \in TodoLists}
         \cup {Resp("none", 200, "object", [keys |-> n], <<>>) : n \in {0, 1}}
    [] OTHER ->
         {Resp("none", 200, "object", st, <<>>) : st \in Stats}
         \cup {Resp("none", 200, "array", NoObj, <<>>)}

StateResponses(s) ==
  {Raise(e) : e \in NetErrors}
  \cup {Plain(c) : c \in {200, 500}}
  \cup {[r EXCEPT !.status_code = c] : r \in StateBodies(s), c \in {200, 500}}

\* response.raise_for_status() raises
is_error(status_code) == status_code < 200 \/ status_code > 299

------------------------------------------------------------------------------
(* Reward functions: the body of each try block, given the decoded object *)

\* reach_tile_reward with the tile test written as "highest_tile > 2"
reach_tile_reward_gt2(target, game_state) ==
  LET highest_tile == Get(game_state.highest_tile, 0)
      score        == Get(game_state.score, 0)
  IN  IF score = 0 THEN Zero
      ELSE IF target > 1 /\ highest_tile > 2
           THEN MinOne(LogRatio(highest_tile, target))
           ELSE Zero

reach_tile_reward(target, game_state) ==
  LET highest_tile == Get(game_state.highest_tile, 0)
      score        == Get(game_state.score, 0)
  IN  IF score = 0 THEN Zero
      ELSE IF target > 1 /\ highest_tile > 1
           THEN MinOne(LogRatio(highest_tile, target))
           ELSE Zero

near_win_reward(target, game_state) ==
  LET won == Get(game_state.won, FALSE) \/ Get(game_state.highest_tile, 0) >= target
  IN  IF won THEN One ELSE Zero

\* reach_score_reward without the clamp min(1.0, .)
reach_score_reward_unclamped(target_score, game_state) ==
  LET score == Get(game_state.score, 0)
  IN  IF target_score > 0 THEN Q(score, target_score) ELSE Zero

reach_score_reward(target_score, game_state) ==
  LET score == Get(game_state.score, 0)
  IN  IF target_score > 0 THEN MinOne(Q(score, target_score)) ELSE Zero

\* complete_todos_reward without the test "completed >= expected_count"
complete_todos_reward_ratio(expected_count, stats) ==
  LET completed == Get(stats.completed_items, 0)
  IN  IF expected_count > 0 THEN Q(completed, expected_count) ELSE Zero

complete_todos_reward(expected_count, stats) ==
  LET completed == Get(stats.completed_items, 0)
  IN  IF completed >= expected_count THEN One
      ELSE IF expected_count > 0 THEN Q(completed, expected_count)
           ELSE Zero

\* any(todo.get("title") == title for todo in todos), left to right:
\* "raise" when an element that is not an object is reached first
RECURSIVE any_title(_, _, _)
any_title(todos, title, i) ==
  IF i > Len(todos) THEN "false"
  ELSE IF ~todos[i].dict THEN "raise"
       ELSE IF todos[i].title = {title} THEN "true"
            ELSE any_title(todos, title, i + 1)

create_todo_reward(title, todos) ==
  IF any_title(todos, title, 1) = "true" THEN One ELSE Zero

\* completion_rate_reward without the clamp min(1.0, .)
completion_rate_reward_unclamped(target_rate, stats) ==
  LET total       == Get(stats.total_items, 0)
      completed   == Get(stats.completed_items, 0)
      actual_rate == IF total > 0 THEN Q(completed, total) ELSE Zero
  IN  IF target_rate.a > 0 THEN QDiv(actual_rate, target_rate) ELSE One

completion_rate_reward(target_rate, stats) ==
  LET total       == Get(stats.total_items, 0)
      completed   == Get(stats.completed_items, 0)
      actual_rate == IF total > 0 THEN Q(completed, total) ELSE Zero
  IN  IF target_rate.a > 0 THEN MinOne(QDiv(actual_rate, target_rate)) ELSE One

\* the try block raises (and the except clause takes over)
eval_raises(s, kw, r) ==
  \/ r.exc # "none"
  \/ s = "2048-reach-tile" /\ is_error(r.status_code)
  \/ r.json = "invalid"
  \/ s = "todo-create" /\ r.json = "object" /\ r.obj.keys > 0
  \/ s = "todo-create" /\ r.json = "array" /\ any_title(r.arr, kw.title, 1) = "raise"
  \/ s # "todo-create" /\ r.json = "array"

\* the reward the try block yields when it does not raise
reward_of(s, kw, r) ==
  CASE s = "2048-reach-tile"      -> reach_tile_reward(kw.target, r.obj)
    [] s = "2048-near-win"        -> near_win_reward(kw.target, r.obj)
    [] s = "2048-score"           -> reach_score_reward(kw.target_score, r.obj)
    [] s = "todo-complete"        -> complete_todos_reward(kw.expected_count, r.obj)
    [] s = "todo-create"          -> create_todo_reward(kw.title, r.arr)
    [] s = "todo-completion-rate" -> completion_rate_reward(kw.target_rate, r.obj)

------------------------------------------------------------------------------
(* One scenario run *)

VARIABLES
  scenario,      \* the registered name the host invoked
  kwargs,        \* its keyword arguments
  pc,            \* position of the generator
  backend_port,  \* the local backend_port, 0 before it is assigned
  requests,      \* the requests sent to the backend, in order
  yielded,       \* the values yielded to the host, in order
  raised,        \* the exception that left the generator, "none" if none
  launch_resp,   \* the response to the launch request, NoResp before it
  init_resp,     \* the response to the initialization request, NoResp before it
  init_json,     \* the JSON body of the initialization request, NoJson before it
  state_resp,    \* the response to the state fetch, NoResp before it
  thrown,        \* the host has resumed the run with an error (athrow)
  polls,         \* discovery: polls started
  now,           \* discovery: time.time() since the call, in ticks
  cdp_url,       \* discovery: the value returned, "pending" before it returns
  ready_after,   \* discovery: polls the endpoint lets pass before it answers
                 \* with an address ({n}), or {} if it never does
  responded,     \* discovery: some poll was answered with an HTTP response
  last_ticks,    \* discovery: ticks the request of the last poll took
  playwright,    \* tools.browser: the cdp_url PlaywrightTool was built with,
                 \* "unset" before the module has built it
  router_tools,  \* tools.browser: the tools registered with the router
  tool_pc,       \* launch_app: position of the running call, "idle" if none
  tool_call,     \* launch_app: the locals of the running call
  tool_log,      \* launch_app: the outcomes of the finished calls, in order
  runs,          \* concurrent runs: the state of each run
  apps,          \* concurrent runs: the application instance behind each port
  reg_pc,        \* env.py: position of the startup in its registrations
  env_scenarios, \* env.py: the registrations made with env.scenario, in order
  tasks          \* local_test.py: the tasks made with env(name, ...), in order

run_vars == <<scenario, kwargs, pc, backend_port, requests, yielded, raised,
              launch_resp, init_resp, init_json, state_resp, thrown>>

cdp_vars == <<polls, now, cdp_url, ready_after, responded, last_ticks,
              playwright, router_tools>>

tool_vars == <<tool_pc, tool_call, tool_log>>

conc_vars == <<runs, apps>>

reg_vars == <<reg_pc, env_scenarios, tasks>>

\* the variables a scenario run leaves alone
not_run_vars == <<cdp_vars, tool_vars, conc_vars, reg_vars>>

vars == <<scenario, kwargs, pc, backend_port, requests, yielded, raised,
          launch_resp, init_resp, init_json, state_resp, thrown,
          polls, now, cdp_url, ready_after, responded, last_ticks,
          playwright, router_tools, tool_pc, tool_call, tool_log, runs, apps,
          reg_pc, env_scenarios, tasks>>

NoResp == Resp("unset", 0, "invalid", NoObj, <<>>)

\* the values a generator yields: the prompt (a str built from the keyword
\* arguments) and the reward (a float)
Prompt(kw) == [type |-> "str", value |-> kw]

Reward(r) == [type |-> "float", value |-> r]

\* positions at which the generator is suspended at a yield
Suspended == {"YIELDED_FAIL", "AWAITING_AGENT", "YIELDED_REWARD", "YIELDED_EXCEPT"}

\* no JSON body
NoJson == [none |-> {}]

\* no call of launch_app is running
NoCall == [app_name |-> "", app_url |-> ""]

CdpIdle ==
  /\ polls = 0 /\ now = 0 /\ cdp_url = "pending" /\ ready_after = {}
  /\ responded = FALSE /\ last_ticks = 0
  /\ playwright = "unset" /\ router_tools = {}

ToolIdle == tool_pc = "idle" /\ tool_call = NoCall /\ tool_log = <<>>

ConcIdle == runs = <<>> /\ apps = <<>>

\* a registration: @env.scenario(name) on a function with these parameters
Registration(name, params) == [name |-> name, params |-> params]

\* the registrations register_scenarios of scenarios/game_2048.py makes
Scenarios2048 ==
  <<Registration("2048-reach-tile", {"target", "board_size"}),
    Registration("2048-near-win", {"target"}),
    Registration("2048-score", {"target_score"})>>

\* the registrations register_scenarios of scenarios/todo.py makes
ScenariosTodo ==
  <<Registration("todo-complete", {"expected_count"}),
    Registration("todo-create", {"title"}),
    Registration("todo-completion-rate", {"target_rate"})>>

\* env.py has created the environment and registered nothing yet
RegNone == reg_pc = "ENV_CREATED" /\ env_scenarios = <<>> /\ tasks = <<>>

\* env.py has run to its end and no task has been made
RegDone ==
  /\ reg_pc = "STARTED"
  /\ env_scenarios = Scenarios2048 \o ScenariosTodo
  /\ tasks = <<>>

\* no scenario run has been started
RunIdle ==
  /\ scenario = "2048-reach-tile"
  /\ kwargs = [target |-> 2, board_size |-> 4]
  /\ pc = "CREATED"
  /\ backend_port = 0
  /\ requests = <<>>
  /\ yielded = <<>>
  /\ raised = "none"
  /\ launch_resp = NoResp
  /\ init_resp = NoResp
  /\ init_json = NoJson
  /\ state_resp = NoResp
  /\ thrown = FALSE

Init ==
  /\ scenario \in Scenarios
  /\ kwargs \in Kwargs(scenario)
  /\ pc = "CREATED"
  /\ backend_port = 0
  /\ requests = <<>>
  /\ yielded = <<>>
  /\ raised = "none"
  /\ launch_resp = NoResp
  /\ init_resp = NoResp
  /\ init_json = NoJson
  /\ state_resp = NoResp
  /\ thrown = FALSE
  /\ CdpIdle
  /\ ToolIdle
  /\ ConcIdle
  /\ RegDone

\* first anext(): the generator starts and sends the launch request
Start ==
  /\ pc = "CREATED"
  /\ pc' = "SETUP_LAUNCH"
  /\ requests' = Append(requests, launch_request)
  /\ UNCHANGED <<scenario, kwargs, backend_port, yielded, raised, launch_resp,
                 init_resp, init_json, state_resp, thrown>>
  /\ UNCHANGED not_run_vars

\* launch_step with the "return" after "yield 0.0" forgotten: the run goes on
launch_step_noreturn(s, r) ==
  IF r.exc # "none"
    THEN [pc |-> "DONE", port |-> 0, out |-> <<>>, raised |-> r.exc]
  ELSE IF r.status_code # 200
    THEN [pc |-> "SETUP_INIT", port |-> default_port(s), out |-> <<Reward(Zero)>>,
          raised |-> "none"]
  ELSE IF r.json = "invalid"
    THEN [pc |-> "DONE", port |-> 0, out |-> <<>>, raised |-> "JSONDecodeError"]
  ELSE IF r.json = "array"
    THEN [pc |-> "DONE", port |-> 0, out |-> <<>>, raised |-> "AttributeError"]
  ELSE [pc |-> "SETUP_INIT", port |-> Get(r.obj.backend_port, default_port(s)),
        out |-> <<>>, raised |-> "none"]

\* launch_step with the status test written as "== 404"
launch_step_only404(s, r) ==
  IF r.exc # "none"
    THEN [pc |-> "DONE", port |-> 0, out |-> <<>>, raised |-> r.exc]
  ELSE IF r.status_code = 404
    THEN [pc |-> "YIELDED_FAIL", port |-> 0, out |-> <<Reward(Zero)>>, raised |-> "none"]
  ELSE IF r.json = "invalid"
    THEN [pc |-> "DONE", port |-> 0, out |-> <<>>, raised |-> "JSONDecodeError"]
  ELSE IF r.json = "array"
    THEN [pc |-> "DONE", port |-> 0, out |-> <<>>, raised |-> "AttributeError"]
  ELSE [pc |-> "SETUP_INIT", port |-> Get(r.obj.backend_port, default_port(s)),
        out |-> <<>>, raised |-> "none"]

\* what the generator does with the launch response r:
\* the position it reaches, the port it keeps, the value it yields, the
\* exception that escapes
launch_step(s, r) ==
  IF r.exc # "none"
    THEN [pc |-> "DONE", port |-> 0, out |-> <<>>, raised |-> r.exc]
  ELSE IF r.status_code # 200
    THEN [pc |-> "YIELDED_FAIL", port |-> 0, out |-> <<Reward(Zero)>>, raised |-> "none"]
  ELSE IF r.json = "invalid"
    THEN [pc |-> "DONE", port |-> 0, out |-> <<>>, raised |-> "JSONDecodeError"]
  ELSE IF r.json = "array"
    THEN [pc |-> "DONE", port |-> 0, out |-> <<>>, raised |-> "AttributeError"]
  ELSE [pc |-> "SETUP_INIT", port |-> Get(r.obj.backend_port, default_port(s)),
        out |-> <<>>, raised |-> "none"]

\* the launch response arrives; on success the initialization request is sent
LaunchResponse ==
  /\ pc = "SETUP_LAUNCH"
  /\ \E r \in LaunchResponses :
       LET st == launch_step(scenario, r) IN
       /\ launch_resp' = r
       /\ pc' = st.pc
       /\ backend_port' = st.port
       /\ yielded' = yielded \o st.out
       /\ raised' = st.raised
       /\ requests' = IF st.pc = "SETUP_INIT"
                        THEN Append(requests, init_request(scenario, st.port))
                        ELSE requests
       /\ init_json' = IF st.pc = "SETUP_INIT"
                         THEN init_json_of(scenario, kwargs)
                         ELSE init_json
  /\ UNCHANGED <<scenario, kwargs, init_resp, state_resp, thrown>>
  /\ UNCHANGED not_run_vars

\* what the generator does with the response r to the initialization request
init_step(kw, r) ==
  IF r.exc # "none"
    THEN [pc |-> "DONE", out |-> <<>>, raised |-> r.exc]
    ELSE [pc |-> "AWAITING_AGENT", out |-> <<Prompt(kw)>>, raised |-> "none"]

\* the initialization response arrives; the prompt is yielded
InitResponse ==
  /\ pc = "SETUP_INIT"
  /\ \E r \in InitResponses :
       LET st == init_step(kwargs, r) IN
       /\ init_resp' = r
       /\ pc' = st.pc
       /\ yielded' = yielded \o st.out
       /\ raised' = st.raised
  /\ UNCHANGED <<scenario, kwargs, backend_port, requests, launch_resp, init_json,
                 state_resp, thrown>>
  /\ UNCHANGED not_run_vars

\* the host resumes the run after the agent's turn: the state fetch is sent
Resume ==
  /\ pc = "AWAITING_AGENT"
  /\ pc' = "EVALUATING"
  /\ requests' = Append(requests, state_request(scenario, backend_port))
  /\ UNCHANGED <<scenario, kwargs, backend_port, yielded, raised, launch_resp,
                 init_resp, init_json, state_resp, thrown>>
  /\ UNCHANGED not_run_vars

\* what the try / except of the evaluation phase does with the response r
evaluate(s, kw, r) ==
  IF eval_raises(s, kw, r)
    THEN [pc |-> "YIELDED_EXCEPT", out |-> <<Reward(Zero)>>]
    ELSE [pc |-> "YIELDED_REWARD", out |-> <<Reward(reward_of(s, kw, r))>>]

\* the state response arrives; the reward is yielded
StateResponse ==
  /\ pc = "EVALUATING"
  /\ \E r \in StateResponses(scenario) :
       LET st == evaluate(scenario, kwargs, r) IN
       /\ state_resp' = r
       /\ pc' = st.pc
       /\ yielded' = yielded \o st.out
  /\ UNCHANGED <<scenario, kwargs, backend_port, requests, raised, launch_resp,
                 init_resp, init_json, thrown>>
  /\ UNCHANGED not_run_vars

\* the host resumes a run suspended at a reward: the generator returns
Finish ==
  /\ pc \in {"YIELDED_FAIL", "YIELDED_REWARD", "YIELDED_EXCEPT"}
  /\ pc' = "DONE"
  /\ UNCHANGED <<scenario, kwargs, backend_port, requests, yielded, raised,
                 launch_resp, init_resp, init_json, state_resp, thrown>>
  /\ UNCHANGED not_run_vars

\* what a suspended generator does when an Exception is thrown into it:
\* only the yield of the computed reward is inside a try block
throw_step(at) ==
  IF at = "YIELDED_REWARD"
    THEN [pc |-> "YIELDED_EXCEPT", out |-> <<Reward(Zero)>>, raised |-> "none"]
    ELSE [pc |-> "DONE", out |-> <<>>, raised |-> "Exception"]

\* the host resumes a suspended run with an error (athrow)
Throw ==
  /\ pc \in Suspended
  /\ LET st == throw_step(pc) IN
       /\ pc' = st.pc
       /\ yielded' = yielded \o st.out
       /\ raised' = st.raised
  /\ thrown' = TRUE
  /\ UNCHANGED <<scenario, kwargs, backend_port, requests, launch_resp, init_resp,
                 init_json, state_resp>>
  /\ UNCHANGED not_run_vars

Next ==
  \/ Start
  \/ LaunchResponse
  \/ InitResponse
  \/ Resume
  \/ StateResponse
  \/ Finish
  \/ Throw

Spec == Init /\ [][Next]_vars

------------------------------------------------------------------------------
(* Connection discovery: _discover_cdp_url(), called once at import *)

\* timeout_sec = 60.0, in ticks of half a second
timeout_sec == 120

\* poll_interval_sec = 0.5, in ticks
poll_interval_sec == 1

\* httpx.Client(timeout=5.0), in ticks
client_timeout == 10

\* the address the endpoint hands out once the browser is up
Addr == "ws://browser"

\* a response of GET /cdp: the "ws" key is missing or null ({}), or a string
CdpResp(exc, status_code, json, ws_key) ==
  [exc |-> exc, status_code |-> status_code, json |-> json, ws |-> ws_key]

\* response of a ready endpoint
CdpReady == CdpResp("none", 200, "object", {Addr})

\* responses of an endpoint that is not ready: an error, a non-200 status,
\* a body that does not decode, a null or empty address
CdpNotReady ==
  {CdpResp(e, 0, "invalid", {}) : e \in NetErrors}
  \cup {CdpResp("none", c, "object", w) : c \in {404, 500}, w \in {{}, {Addr}}}
  \cup {CdpResp("none", 200, "invalid", {})}
  \cup {CdpResp("none", 200, "object", w) : w \in {{}, {""}}}

\* ticks a request may take; client_timeout when nothing answers
RequestTicks(r) ==
  IF r.exc = "ReadTimeout" THEN {client_timeout} ELSE {0, 1}

\* the loop goes on after this poll
Continue == [ret |-> FALSE, ws |-> "None"]

\* poll_result with the test of the status code forgotten
poll_result_any_status(r) ==
  IF r.exc # "none" THEN Continue
  ELSE IF r.json # "object" THEN Continue
  ELSE IF Get(r.ws, "") # "" THEN [ret |-> TRUE, ws |-> Get(r.ws, "None")]
  ELSE Continue

\* poll_result with the test "if ws:" forgotten
poll_result_no_ws_test(r) ==
  IF r.exc # "none" THEN Continue
  ELSE IF r.status_code # 200 THEN Continue
  ELSE IF r.json # "object" THEN Continue
  ELSE [ret |-> TRUE, ws |-> Get(r.ws, "None")]

\* the body of the inner try: whether the poll reaches "return ws", and the
\* value of ws (resp.json().get("ws")) it then returns
poll_result(r) ==
  IF r.exc # "none" THEN Continue
  ELSE IF r.status_code # 200 THEN Continue
  ELSE IF r.json # "object" THEN Continue
  ELSE IF Get(r.ws, "") # "" THEN [ret |-> TRUE, ws |-> Get(r.ws, "None")]
  ELSE Continue

\* the deadline computed from the interval instead of the timeout
deadline_from_interval == poll_interval_sec

\* deadline = time.time() + timeout_sec, the call being made at time 0
deadline == timeout_sec

\* the endpoint answers the next poll with an address
EndpointReady == ready_after # {} /\ polls >= Get(ready_after, 0)

DInit ==
  /\ RunIdle
  /\ ToolIdle
  /\ ConcIdle
  /\ RegNone
  /\ polls = 0
  /\ now = 0
  /\ cdp_url = "pending"
  /\ ready_after \in Opt(0 .. MaxReadyAfter)
  /\ responded = FALSE
  /\ last_ticks = 0
  /\ playwright = "unset"
  /\ router_tools = {}

\* one turn of the while loop: the test of the deadline, the request, and
\* either the return of the address or the sleep
Poll ==
  /\ cdp_url = "pending"
  /\ now < deadline
  /\ \E r \in (IF EndpointReady THEN {CdpReady} ELSE CdpNotReady) :
       \E d \in RequestTicks(r) :
         /\ polls' = polls + 1
         /\ responded' = (responded \/ r.exc = "none")
         /\ last_ticks' = d
         /\ IF poll_result(r).ret
              THEN /\ cdp_url' = poll_result(r).ws
                   /\ now' = now + d
              ELSE /\ cdp_url' = cdp_url
                   /\ now' = now + d + poll_interval_sec
  /\ UNCHANGED <<ready_after, playwright, router_tools>>
  /\ UNCHANGED <<run_vars, tool_vars, conc_vars, reg_vars>>

\* the deadline has passed: the loop ends and None is returned
GiveUp ==
  /\ cdp_url = "pending"
  /\ ~(now < deadline)
  /\ cdp_url' = "None"
  /\ UNCHANGED <<polls, now, ready_after, responded, last_ticks, playwright,
                 router_tools>>
  /\ UNCHANGED <<run_vars, tool_vars, conc_vars, reg_vars>>

\* the tools tools/browser.py registers with its router
BrowserTools == {"playwright", "computer", "anthropic_computer", "openai_computer"}

\* the rest of the import of tools/browser.py: PlaywrightTool is built with
\* whatever _discover_cdp_url() returned and the tools are registered
RegisterTools ==
  /\ cdp_url # "pending"
  /\ playwright = "unset"
  /\ playwright' = cdp_url
  /\ router_tools' = BrowserTools
  /\ UNCHANGED <<polls, now, cdp_url, ready_after, responded, last_ticks>>
  /\ UNCHANGED <<run_vars, tool_vars, conc_vars, reg_vars>>

DNext ==
  \/ Poll
  \/ GiveUp
  \/ RegisterTools

DiscoverySpec == DInit /\ [][DNext]_vars

\* the import runs in one thread that nothing suspends: the loop takes its
\* next turn, and the return and the registration are reached
DiscoveryFairSpec ==
  DInit /\ [][DNext]_vars /\ WF_vars(Poll) /\ WF_vars(GiveUp) /\ WF_vars(RegisterTools)

------------------------------------------------------------------------------
(* The launch_app tool (tools/apps.py), called by the agent once the tools *)
(* are registered                                                          *)

AppNames == {"2048", "todo", "nope"}

\* bodies of an error response
Texts == {"Internal Server Error", "unknown app"}

AppUrl == "http://localhost:3000"

\* a response to the tool's POST /apps/launch: exc # "none" means the request
\* raised; text is response.text, json what response.json() produces, url
\* the "url" key of the decoded object, present or missing
ToolResp(exc, status_code, text, json, url_key) ==
  [exc |-> exc, status_code |-> status_code, text |-> text, json |-> json,
   url |-> url_key]

ToolResponses ==
  {ToolResp(e, 0, "", "invalid", {}) : e \in NetErrors \cup {"WriteError"}}
  \cup {ToolResp("none", c, t, "invalid", {}) : c \in {404, 500}, t \in Texts}
  \cup {ToolResp("none", 200, "", j, {}) : j \in {"invalid", "array"}}
  \cup {ToolResp("none", 200, "", "object", u) : u \in Opt({AppUrl})}

BACKEND_URL == "http://localhost:8000"

\* an f-string: its literal pieces and the values formatted into it
Fmt(pieces) == pieces

\* what launch_app does with the response r, up to the navigation: the
\* string it returns (<<>> if it returns none), the exception that escapes
\* ("none" if none), and app_url when it goes on to navigate
launch_app_step(name, r) ==
  IF r.exc = "ReadTimeout"
    THEN [result |-> Fmt(<<"Timeout launching app '", name,
                           "'. Try again in a few seconds.">>),
          raised |-> "none", app_url |-> ""]
  ELSE IF r.exc = "ConnectError"
    THEN [result |-> Fmt(<<"Could not connect to backend at ", BACKEND_URL>>),
          raised |-> "none", app_url |-> ""]
  ELSE IF r.exc # "none"
    THEN [result |-> Fmt(<<"Error launching app '", name, "': ", r.exc>>),
          raised |-> "none", app_url |-> ""]
  ELSE IF r.status_code = 404
    THEN [result |-> Fmt(<<"App '", name, "' not found">>),
          raised |-> "none", app_url |-> ""]
  ELSE IF r.status_code # 200
    THEN [result |-> Fmt(<<"Failed to launch app: ", r.text>>),
          raised |-> "none", app_url |-> ""]
  ELSE IF r.json = "invalid"
    THEN [result |-> <<>>, raised |-> "JSONDecodeError", app_url |-> ""]
  ELSE IF r.json = "array"
    THEN [result |-> <<>>, raised |-> "TypeError", app_url |-> ""]
  ELSE IF r.url = {}
    THEN [result |-> <<>>, raised |-> "KeyError", app_url |-> ""]
  ELSE [result |-> <<>>, raised |-> "none", app_url |-> Get(r.url, "")]

\* what launch_app returns after the navigation
navigate_result(name, app_url, ok) ==
  IF ok THEN Fmt(<<"Launched ", name, " at ", app_url>>)
  ELSE Fmt(<<"Launched ", name, " at ", app_url, " (navigation failed: ", "error", ")">>)

\* the outcome of a finished call: what the backend did, the string returned
\* and the exception that escaped
Outcome(name, r, result, exc) ==
  [app_name |-> name, resp |-> r, result |-> result, raised |-> exc]

\* the import of tools/browser.py is over: discovery found the address at
\* its first poll, or gave up after 120 polls answered with a null address
ToolsImported ==
  /\ \/ ready_after = {0} /\ polls = 1 /\ now = 0 /\ cdp_url = Addr
     \/ /\ ready_after = {} /\ polls = timeout_sec \div poll_interval_sec
        /\ now = timeout_sec /\ cdp_url = "None"
  /\ responded = TRUE /\ last_ticks = 0
  /\ playwright = cdp_url
  /\ router_tools = BrowserTools

TInit ==
  /\ RunIdle
  /\ ConcIdle
  /\ RegDone
  /\ ToolsImported
  /\ ToolIdle

\* the agent calls launch_app(app_name): the launch request is sent
CallLaunchApp ==
  /\ tool_pc = "idle"
  /\ Len(tool_log) < MaxCalls
  /\ \E name \in AppNames : tool_call' = [app_name |-> name, app_url |-> ""]
  /\ tool_pc' = "posting"
  /\ UNCHANGED tool_log
  /\ UNCHANGED <<run_vars, cdp_vars, conc_vars, reg_vars>>

\* the launch response arrives: the call returns, raises, or navigates
LaunchAppResponse ==
  /\ tool_pc = "posting"
  /\ \E r \in ToolResponses :
       LET st == launch_app_step(tool_call.app_name, r) IN
       IF st.app_url # ""
         THEN /\ tool_pc' = "navigating"
              /\ tool_call' = [tool_call EXCEPT !.app_url = st.app_url]
              /\ UNCHANGED tool_log
         ELSE /\ tool_pc' = "idle"
              /\ tool_call' = NoCall
              /\ tool_log' = Append(tool_log,
                   Outcome(tool_call.app_name, r, st.result, st.raised))
  /\ UNCHANGED <<run_vars, cdp_vars, conc_vars, reg_vars>>

\* the navigation ends, well or not: the call returns
NavigateDone ==
  /\ tool_pc = "navigating"
  /\ \E ok \in BOOLEAN :
       tool_log' = Append(tool_log,
         Outcome(tool_call.app_name, ToolResp("none", 200, "", "object", {tool_call.app_url}),
                 navigate_result(tool_call.app_name, tool_call.app_url, ok), "none"))
  /\ tool_pc' = "idle"
  /\ tool_call' = NoCall
  /\ UNCHANGED <<run_vars, cdp_vars, conc_vars, reg_vars>>

TNext ==
  \/ CallLaunchApp
  \/ LaunchAppResponse
  \/ NavigateDone

ToolSpec == TInit /\ [][TNext]_vars

------------------------------------------------------------------------------
(* Concurrent scenario runs (local_test.py test_distribution): the runs of  *)
(* one hud.eval interleave at their awaits and share the backend            *)

RunIds == 1 .. MaxRuns

\* tasks = [env("2048-reach-tile", ...), env("todo-complete", ...)]
DistributionTasks == {"2048-reach-tile", "todo-complete"}

\* the state of the application behind a port, as far as the runs shape it:
\* the run whose setup request it last served (0: none) and the agents that
\* acted on it since
AppState(setup_by, acted_by) == [setup_by |-> setup_by, acted_by |-> acted_by]

Fresh == AppState(0, {})

Run(s, at, port, observed) ==
  [scenario |-> s, pc |-> at, port |-> port, observed |-> observed]

CInit ==
  /\ RunIdle
  /\ CdpIdle
  /\ ToolIdle
  /\ RegDone
  /\ runs \in [RunIds -> {Run(s, "CREATED", 0, Fresh) : s \in DistributionTasks}]
  /\ apps = [p \in AppPorts |-> Fresh]

\* run i posts the launch and takes its port from the response:
\* port = app_info.get("backend_port", <default>)
CLaunch(i) ==
  /\ runs[i].pc = "CREATED"
  /\ \E bp \in Opt(AppPorts) :
       runs' = [runs EXCEPT ![i].pc = "SETUP_INIT",
                            ![i].port = Get(bp, default_port(runs[i].scenario))]
  /\ UNCHANGED apps
  /\ UNCHANGED <<run_vars, cdp_vars, tool_vars, reg_vars>>

\* run i sends its state-initialization request to its port and yields the
\* prompt
CSetup(i) ==
  /\ runs[i].pc = "SETUP_INIT"
  /\ apps' = [apps EXCEPT ![runs[i].port] = AppState(i, {})]
  /\ runs' = [runs EXCEPT ![i].pc = "AWAITING_AGENT"]
  /\ UNCHANGED <<run_vars, cdp_vars, tool_vars, reg_vars>>

\* the agent of run i acts on the application of run i
CAgentAct(i) ==
  /\ runs[i].pc = "AWAITING_AGENT"
  /\ i \notin apps[runs[i].port].acted_by
  /\ apps' = [apps EXCEPT ![runs[i].port].acted_by = @ \cup {i}]
  /\ UNCHANGED runs
  /\ UNCHANGED <<run_vars, cdp_vars, tool_vars, reg_vars>>

\* run i is resumed, fetches the state behind its port and yields the reward
CEvaluate(i) ==
  /\ runs[i].pc = "AWAITING_AGENT"
  /\ runs' = [runs EXCEPT ![i].pc = "DONE",
                          ![i].observed = apps[runs[i].port]]
  /\ UNCHANGED apps
  /\ UNCHANGED <<run_vars, cdp_vars, tool_vars, reg_vars>>

CNext ==
  \/ \E i \in RunIds : CLaunch(i)
  \/ \E i \in RunIds : CSetup(i)
  \/ \E i \in RunIds : CAgentAct(i)
  \/ \E i \in RunIds : CEvaluate(i)

ConcSpec == CInit /\ [][CNext]_vars

------------------------------------------------------------------------------
(* Startup registration (env.py) and the tasks of the test script          *)
(* (local_test.py)                                                         *)

\* a task: env(name, **kwargs), with the names of the keyword arguments
Task(name, args) == [name |-> name, args |-> args]

\* the tasks local_test.py makes: test_2048_scenario and test_distribution,
\* test_todo_scenario and test_distribution, test_custom_board
TestTasks ==
  {Task("2048-reach-tile", {"target"}),
   Task("todo-complete", {"expected_count"}),
   Task("2048-custom-board", {"board", "goal_tile"})}

RInit ==
  /\ RunIdle
  /\ CdpIdle
  /\ ToolIdle
  /\ ConcIdle
  /\ RegNone

\* register_2048_scenarios(env)
register_2048_scenarios ==
  /\ reg_pc = "ENV_CREATED"
  /\ env_scenarios' = env_scenarios \o Scenarios2048
  /\ reg_pc' = "REGISTERED_2048"
  /\ UNCHANGED tasks
  /\ UNCHANGED <<run_vars, cdp_vars, tool_vars, conc_vars>>

\* register_todo_scenarios(env)
register_todo_scenarios ==
  /\ reg_pc = "REGISTERED_2048"
  /\ env_scenarios' = env_scenarios \o ScenariosTodo
  /\ reg_pc' = "STARTED"
  /\ UNCHANGED tasks
  /\ UNCHANGED <<run_vars, cdp_vars, tool_vars, conc_vars>>

\* a test of local_test.py makes a task against the running environment
MakeTask ==
  /\ reg_pc = "STARTED"
  /\ Len(tasks) < MaxTasks
  /\ \E t \in TestTasks : tasks' = Append(tasks, t)
  /\ UNCHANGED <<reg_pc, env_scenarios>>
  /\ UNCHANGED <<run_vars, cdp_vars, tool_vars, conc_vars>>

RNext ==
  \/ register_2048_scenarios
  \/ register_todo_scenarios
  \/ MakeTask

RegistrySpec == RInit /\ [][RNext]_vars

------------------------------------------------------------------------------
(* Properties of a scenario run, checked under Spec *)

IsPrompt(v) == v.type = "str"

IsReward(v) == v.type = "float"

\* the launch request was answered with a status other than 200
LaunchRejected == launch_resp.exc = "none" /\ launch_resp.status_code # 200

\* the launch failed: not found, another non-success status, a timeout or an
\* unreachable backend
LaunchFailed ==
  \/ launch_resp.exc \in NetErrors
  \/ launch_resp.exc = "none" /\ launch_resp.status_code \in {404, 500}

\* the last value yielded
LastYielded == yielded[Len(yielded)]

\* C1 as stated: every run emits exactly one prompt and then exactly one
\* reward; the first value yielded is always the prompt, the only subsequent
\* value is the reward, and no reward is emitted without a prompt before it.
C1_Original ==
  /\ Len(yielded) <= 2
  /\ Len(yielded) >= 1 => IsPrompt(yielded[1])
  /\ Len(yielded) = 2 => IsReward(yielded[2])
  /\ (pc = "DONE" /\ ~thrown) => Len(yielded) = 2

\* C1 amended: a run the host resumes only normally yields at most one
\* prompt and at most one reward, and nothing after the reward.  If the
\* launch is answered with 200 and no setup request raises, the first value
\* is the prompt and the only later value is the reward, present once the
\* run is resumed.  If the launch is answered with another status the run
\* yields the single value 0.0 and no prompt.  If a setup request raises or
\* the launch body does not decode, the run yields nothing.
C1_PromptThenReward ==
  ~thrown =>
    /\ Len(yielded) <= 2
    /\ \A i \in 1 .. Len(yielded) : IsPrompt(yielded[i]) => i = 1
    /\ Len(yielded) = 2 => IsPrompt(yielded[1]) /\ IsReward(yielded[2])
    /\ (Len(yielded) >= 1 /\ IsPrompt(yielded[1])) =>
         /\ yielded[1] = Prompt(kwargs)
         /\ launch_resp.exc = "none" /\ launch_resp.status_code = 200
    /\ (Len(yielded) >= 1 /\ IsReward(yielded[1])) =>
         /\ yielded = <<Reward(Zero)>>
         /\ LaunchRejected
    /\ (pc = "DONE" /\ raised = "none") =>
         \/ yielded = <<Reward(Zero)>> /\ LaunchRejected
         \/ Len(yielded) = 2
    /\ raised # "none" => yielded = <<>>
    /\ pc \in {"YIELDED_REWARD", "YIELDED_EXCEPT"} => Len(yielded) = 2
    /\ pc = "AWAITING_AGENT" => yielded = <<Prompt(kwargs)>>

\* a run completed by plain resumption that yielded the prompt, then a reward
C1_Witness ==
  /\ pc = "DONE" /\ ~thrown /\ raised = "none"
  /\ Len(yielded) = 2 /\ IsPrompt(yielded[1]) /\ IsReward(yielded[2])

\* C2 as stated: when the launch fails (404, 500, timeout, unreachable
\* backend) the run ends with reward 0.0 and no exception leaves the scenario.
C2_LaunchFailureIsZero ==
  (LaunchFailed /\ ~thrown) =>
    /\ raised = "none"
    /\ yielded = <<Reward(Zero)>>

\* C3: when the launch is answered with a non-200 status the run yields 0.0
\* as its only value, never a prompt, sends no request after the launch and
\* is over at the next resumption.
C3_RejectedLaunchShortCircuits ==
  LaunchRejected =>
    /\ yielded = <<Reward(Zero)>>
    /\ requests = <<launch_request>>
    /\ backend_port = 0
    /\ pc \in {"YIELDED_FAIL", "DONE"}

\* a run finished after a 500 from the launch
C3_Witness ==
  /\ LaunchRejected /\ launch_resp.status_code = 500
  /\ pc = "DONE" /\ raised = "none"

\* the state fetch has been answered
Fetched == state_resp.exc # "unset"

\* the decoded state has the shape the scenario reads
IsGameState == Fetched /\ app_name(scenario) = "2048" /\ state_resp.json = "object"

IsStats ==
  /\ Fetched /\ scenario \in {"todo-complete", "todo-completion-rate"}
  /\ state_resp.json = "object"

\* the body is there but lacks every key the scenario reads
MissingKeys ==
  CASE ~Fetched \/ state_resp.json # "object" -> FALSE
    [] scenario = "2048-reach-tile" ->
         state_resp.obj.highest_tile = {} /\ state_resp.obj.score = {}
    [] scenario = "2048-near-win" ->
         state_resp.obj.won = {} /\ state_resp.obj.highest_tile = {}
    [] scenario = "2048-score" -> state_resp.obj.score = {}
    [] scenario = "todo-complete" -> state_resp.obj.completed_items = {}
    [] scenario = "todo-completion-rate" ->
         state_resp.obj.total_items = {} /\ state_resp.obj.completed_items = {}
    [] OTHER -> FALSE

\* the fetch or the decoding of the final state failed
FetchFailed ==
  /\ Fetched
  /\ \/ state_resp.exc \in NetErrors
     \/ state_resp.status_code >= 400
     \/ state_resp.json = "invalid"
     \/ scenario # "todo-create" /\ state_resp.json = "array"
     \/ scenario = "todo-create" /\ state_resp.json = "object"
     \/ MissingKeys

\* C4 as stated: after the resume, if fetching or decoding the final state
\* fails (network error, error status, malformed body, missing keys) the run
\* yields reward 0.0 and raises nothing, for every scenario and parameter.
C4_FetchFailureIsZero ==
  FetchFailed =>
    /\ Len(yielded) >= 2 /\ yielded[2] = Reward(Zero)
    /\ ~thrown => raised = "none"

\* every number the backend reported in the state is non-negative
NonNegObserved ==
  CASE IsGameState ->
         /\ \A v \in state_resp.obj.highest_tile : v >= 0
         /\ \A v \in state_resp.obj.score : v >= 0
    [] IsStats ->
         /\ \A v \in state_resp.obj.total_items : v >= 0
         /\ \A v \in state_resp.obj.completed_items : v >= 0
    [] OTHER -> TRUE

\* C5: every reward a run yields lies in [0.0, 1.0], for every non-negative
\* observed value and every parameter value.
C5_RewardInUnit ==
  NonNegObserved =>
    \A i \in 1 .. Len(yielded) : IsReward(yielded[i]) => InUnit(yielded[i].value)

\* a score far above the target was observed and the reward yielded
C5_Witness ==
  /\ scenario = "2048-score" /\ pc = "YIELDED_REWARD"
  /\ kwargs.target_score = 1 /\ state_resp.obj.score = {MaxObserved}
  /\ LastYielded = Reward(One)

\* C6 as stated: the todo-complete reward is 0 when expected_count <= 0,
\* otherwise 1.0 when completed >= expected_count, otherwise
\* completed / expected_count, for every completed >= 0.
C6_CompleteTodosReward ==
  (scenario = "todo-complete" /\ pc = "YIELDED_REWARD") =>
    LET completed == Get(state_resp.obj.completed_items, 0)
        expected  == kwargs.expected_count
    IN  completed >= 0 =>
          LastYielded.value =
            IF expected <= 0 THEN Zero
            ELSE IF completed >= expected THEN One
            ELSE [k |-> "q", a |-> completed \div GCD(completed, expected),
                  b |-> expected \div GCD(completed, expected)]

\* the reward min(1, (completed / total) / (n / d)) for total > 0, n > 0
RateReward(completed, total, n, d) ==
  IF completed * d >= total * n THEN One ELSE Q(completed * d, total * n)

\* C7 as stated: in todo-completion-rate, total = 0 gives reward 0.0 for every
\* target_rate, also target_rate <= 0; total > 0 and target_rate > 0 give
\* min(1, (completed / total) / target_rate).
C7_Original ==
  (scenario = "todo-completion-rate" /\ pc = "YIELDED_REWARD") =>
    LET total     == Get(state_resp.obj.total_items, 0)
        completed == Get(state_resp.obj.completed_items, 0)
        rate      == kwargs.target_rate
    IN  /\ total = 0 => LastYielded.value = Zero
        /\ (total > 0 /\ rate.a > 0) =>
             LastYielded.value = RateReward(completed, total, rate.a, rate.b)

\* C7 amended: total = 0 gives reward 0.0 for every target_rate > 0 and 1.0
\* for every target_rate <= 0; total > 0 and target_rate > 0 give
\* min(1, (completed / total) / target_rate).
C7_CompletionRate ==
  (scenario = "todo-completion-rate" /\ pc = "YIELDED_REWARD") =>
    LET total     == Get(state_resp.obj.total_items, 0)
        completed == Get(state_resp.obj.completed_items, 0)
        rate      == kwargs.target_rate
    IN  /\ (total = 0 /\ rate.a > 0) => LastYielded.value = Zero
        /\ (total = 0 /\ rate.a <= 0) => LastYielded.value = One
        /\ (total > 0 /\ rate.a > 0) =>
             LastYielded.value = RateReward(completed, total, rate.a, rate.b)

\* completed = 5, total = 10, target_rate = 0.5 was observed and rewarded 1.0
C7_Witness ==
  /\ scenario = "todo-completion-rate" /\ pc = "YIELDED_REWARD"
  /\ kwargs.target_rate = Q(1, 2)
  /\ state_resp.obj.total_items = {10} /\ state_resp.obj.completed_items = {5}
  /\ LastYielded = Reward(One)

\* C8 as stated: in 2048-reach-tile, for every target > 1, a state whose
\* highest tile equals the target yields 1.0 whatever its other fields are,
\* and a state whose highest tile is 0 yields 0.0.
C8_Original ==
  (scenario = "2048-reach-tile" /\ pc = "YIELDED_REWARD" /\ kwargs.target > 1) =>
    LET highest == Get(state_resp.obj.highest_tile, 0)
    IN  /\ highest = kwargs.target => LastYielded.value = One
        /\ highest = 0 => LastYielded.value = Zero

\* C8 amended: for every target > 1, a state whose highest tile equals the
\* target and whose score is not 0 yields 1.0 (a score of 0 or a missing
\* score yields 0.0), and a state whose highest tile is 0 yields 0.0.
C8_ReachTile ==
  (scenario = "2048-reach-tile" /\ pc = "YIELDED_REWARD" /\ kwargs.target > 1) =>
    LET highest == Get(state_resp.obj.highest_tile, 0)
        score   == Get(state_resp.obj.score, 0)
    IN  /\ (highest = kwargs.target /\ score # 0) => LastYielded.value = One
        /\ (highest = kwargs.target /\ score = 0) => LastYielded.value = Zero
        /\ highest = 0 => LastYielded.value = Zero

\* the target tile was reached with a positive score and rewarded 1.0
C8_Witness ==
  /\ scenario = "2048-reach-tile" /\ pc = "YIELDED_REWARD"
  /\ kwargs.target = 2 /\ state_resp.obj.highest_tile = {2}
  /\ state_resp.obj.score = {4} /\ state_resp.obj.won = {}
  /\ LastYielded = Reward(One)

\* C9: the 2048-score reward is min(1, score / target_score) when
\* target_score > 0 and 0 when target_score <= 0; score 0 gives 0.0, score =
\* target_score and score = 2 * target_score give 1.0, and the reward does
\* not decrease when the score grows.
C9_ReachScore ==
  (scenario = "2048-score" /\ pc = "YIELDED_REWARD") =>
    LET score  == Get(state_resp.obj.score, 0)
        t      == kwargs.target_score
        reward == LastYielded.value
    IN  /\ t <= 0 => reward = Zero
        /\ (t > 0 /\ score >= t) => reward = One
        /\ (t > 0 /\ score < t) => reward = Q(score, t)
        /\ score = 0 => reward = Zero
        /\ (t > 0 /\ score \in {t, 2 * t}) => reward = One
        /\ \A s2 \in Observed :
             s2 >= score =>
               QLeq(reward, reach_score_reward(t, [state_resp.obj EXCEPT !.score = {s2}]))

\* twice the target score was observed and rewarded 1.0
C9_Witness ==
  /\ scenario = "2048-score" /\ pc = "YIELDED_REWARD"
  /\ kwargs.target_score = 3 /\ state_resp.obj.score = {6}
  /\ LastYielded = Reward(One)

------------------------------------------------------------------------------
(* Properties of the connection discovery, checked under DiscoverySpec *)

\* discovery has returned
Returned == cdp_url # "pending"

\* the number N of polls the endpoint lets pass before it is ready
ReadyAfter == Get(ready_after, 0)

\* C10 as stated: if the endpoint starts returning a valid address after N
\* poll cycles and N times the poll interval is less than the timeout, then
\* discovery returns exactly that address, whatever the earlier polls did.
C10_Original ==
  (Returned /\ ready_after # {} /\ ReadyAfter * poll_interval_sec < timeout_sec) =>
    cdp_url = Addr

\* C10 amended: if the endpoint starts returning a valid address after N poll
\* cycles and the poll after them starts before the deadline (the N cycles,
\* requests and sleeps together, took less than the timeout), then discovery
\* returns exactly that address at that poll, whatever the earlier polls did;
\* it returns absent only when the deadline passed during the first N cycles.
C10_ReadyPollReturns ==
  ready_after # {} =>
    /\ polls > ReadyAfter => cdp_url = Addr
    /\ cdp_url = Addr => polls = ReadyAfter + 1
    /\ cdp_url = "None" => (polls <= ReadyAfter /\ now >= timeout_sec)

\* the address was returned after three polls that found nothing
C10_Witness ==
  /\ ready_after = {3} /\ polls = 4 /\ cdp_url = Addr
  /\ now >= 3 * poll_interval_sec


\* C11 as stated: if the endpoint never responds, discovery returns absent
\* no earlier than one poll interval before the timeout and no later than one
\* poll interval after it.
C11_Original ==
  (Returned /\ ~responded) =>
    /\ cdp_url = "None"
    /\ now >= timeout_sec - poll_interval_sec
    /\ now <= timeout_sec + poll_interval_sec

\* C11 amended: if the endpoint never responds, discovery returns absent no
\* earlier than the timeout, and later than the timeout by less than the
\* time the last poll took: its request, which waits up to the client
\* timeout for a response, plus one poll interval.
C11_TimeoutBoundary ==
  (Returned /\ ~responded) =>
    /\ cdp_url = "None"
    /\ polls >= 1
    /\ now >= timeout_sec
    /\ now - (last_ticks + poll_interval_sec) < timeout_sec

\* absent was returned more than one poll interval after the timeout, no
\* poll having been answered
C11_Witness ==
  /\ cdp_url = "None" /\ ~responded
  /\ now > timeout_sec + poll_interval_sec


\* C12 as stated: when discovery returns absent, initialization fails hard:
\* the browser-control tools are not built and registered with an absent
\* address, so no browser-control operation is reachable after a failed
\* discovery.
C12_AbsentIsFatal ==
  cdp_url = "None" => (playwright = "unset" /\ router_tools = {})


------------------------------------------------------------------------------
(* Properties of the launch_app tool, checked under ToolSpec *)

\* the four failure kinds of a launch
FailureKind(r) ==
  IF r.exc = "ReadTimeout" THEN "timeout"
  ELSE IF r.exc = "ConnectError" THEN "connect"
  ELSE IF r.exc = "none" /\ r.status_code = 404 THEN "not_found"
  ELSE IF r.exc = "none" /\ r.status_code # 200 THEN "status"
  ELSE "other"

\* C13 as stated: launch_app never lets an exception escape, whatever the
\* backend does (404, another non-200 status, read timeout, connection
\* failure, any other error, a 200 response without the expected fields); the
\* results for not found, other status (carrying the backend's text),
\* timeout and connection failure are four mutually distinct kinds.
C13_LaunchAppNeverRaises ==
  /\ \A i \in 1 .. Len(tool_log) :
       /\ tool_log[i].raised = "none"
       /\ tool_log[i].result # <<>>
       /\ FailureKind(tool_log[i].resp) = "status" =>
            tool_log[i].result[Len(tool_log[i].result)] = tool_log[i].resp.text
  /\ \A i, j \in 1 .. Len(tool_log) :
       LET ki == FailureKind(tool_log[i].resp)
           kj == FailureKind(tool_log[j].resp)
       IN  (ki # "other" /\ kj # "other" /\ ki # kj) =>
             tool_log[i].result # tool_log[j].result


------------------------------------------------------------------------------
(* Properties of concurrent runs, checked under ConcSpec *)

Live(i) == runs[i].pc \in {"SETUP_INIT", "AWAITING_AGENT"}

\* C14 as stated: no two live runs hold the same backend port, and what a
\* run observes at evaluation was set up by that run and touched by its own
\* agent only, under any interleaving.
C14_RunsIsolated ==
  /\ \A i, j \in RunIds :
       (i # j /\ Live(i) /\ Live(j)) => runs[i].port # runs[j].port
  /\ \A i \in RunIds :
       runs[i].pc = "DONE" =>
         /\ runs[i].observed.setup_by = i
         /\ runs[i].observed.acted_by \subseteq {i}


------------------------------------------------------------------------------
(* Further properties of a scenario run, checked under Spec *)

\* the state-initialization request failed: it raised a network error or was
\* answered with a non-success status
InitFailed ==
  \/ init_resp.exc \in NetErrors
  \/ init_resp.exc = "none" /\ init_resp.status_code >= 400

\* C15 as stated: after a successful launch, a failed state-initialization
\* request (network error or non-success status) does not raise out of the
\* run, and the run degrades to the reward 0.0.
C15_InitFailureIsZero ==
  (InitFailed /\ ~thrown) =>
    /\ raised = "none"
    /\ \A i \in 1 .. Len(yielded) :
         IsReward(yielded[i]) => yielded[i] = Reward(Zero)


\* the number of rewards among the values ys
RECURSIVE CountRewards(_)
CountRewards(ys) ==
  IF ys = <<>> THEN 0
  ELSE (IF IsReward(Head(ys)) THEN 1 ELSE 0) + CountRewards(Tail(ys))

\* C16 as stated: once a run has emitted its reward, resuming it in any way
\* (plain resume, sending a value, resuming it with an error) produces no
\* further value: no run emits a second reward or a second prompt.
C16_NothingAfterReward ==
  /\ CountRewards(yielded) <= 1
  /\ Len(yielded) - CountRewards(yielded) <= 1
  /\ \A i \in 1 .. Len(yielded) : IsReward(yielded[i]) => i = Len(yielded)


\* the number of fetches of the application state among the requests rs
RECURSIVE FetchCount(_)
FetchCount(rs) ==
  IF rs = <<>> THEN 0
  ELSE (IF Head(rs) = state_request(scenario, backend_port) THEN 1 ELSE 0)
       + FetchCount(Tail(rs))

\* the run has been resumed after its prompt
Resumed == pc = "EVALUATING" \/ Fetched

\* C17: suspended at the prompt the run has sent the launch and the
\* initialization request and nothing else; the application state is fetched
\* exactly once per resumed run and never otherwise, a reward that follows the
\* prompt comes after that fetch, and every request is sent either before
\* the prompt is yielded or by the resumption that ends the suspension.
C17_FetchOnceAfterResume ==
  /\ [](pc = "AWAITING_AGENT" =>
          requests = <<launch_request, init_request(scenario, backend_port)>>)
  /\ [](FetchCount(requests) = IF Resumed THEN 1 ELSE 0)
  /\ [](Len(yielded) >= 2 =>
          /\ Len(requests) = 3
          /\ requests[3] = state_request(scenario, backend_port))
  /\ [][requests' # requests =>
          \/ yielded = <<>> /\ yielded' = <<>> /\ pc # "AWAITING_AGENT"
          \/ /\ pc = "AWAITING_AGENT" /\ pc' = "EVALUATING"
             /\ requests' = Append(requests, state_request(scenario, backend_port))]_vars

\* a run that was suspended at the prompt, resumed, and yielded its reward
\* after one fetch
C17_Witness ==
  /\ pc = "YIELDED_REWARD"
  /\ Len(yielded) = 2 /\ IsPrompt(yielded[1]) /\ IsReward(yielded[2])
  /\ requests = <<launch_request, init_request(scenario, backend_port),
                  state_request(scenario, backend_port)>>


Cells == (1 .. 4) \X (1 .. 4)

Adjacent(c, d) ==
  \/ c[1] = d[1] /\ Abs(c[2] - d[2]) = 1
  \/ c[2] = d[2] /\ Abs(c[1] - d[1]) = 1

\* the state of a game whose board nobody moved since set_board
Unmoved(board) ==
  [highest_tile |-> {CHOOSE t \in {board[c[1]][c[2]] : c \in Cells} :
                       \A c \in Cells : board[c[1]][c[2]] <= t},
   score |-> {board_sum(board) * 2},
   won |-> {FALSE}]

\* C19 as stated: in 2048-near-win, for every target, the board sent during
\* setup has two adjacent tiles of value target/2 and no tile >= target, so
\* a run whose agent makes no move is rewarded 0.0.
C19_NearWinOneMergeAway ==
  (scenario = "2048-near-win" /\ init_json # NoJson) =>
    LET board  == init_json.board
        target == kwargs.target
    IN  /\ \E c, d \in Cells :
             /\ Adjacent(c, d)
             /\ board[c[1]][c[2]] = board[d[1]][d[2]]
             /\ 2 * board[c[1]][c[2]] = target
        /\ \A c \in Cells : board[c[1]][c[2]] < target
        /\ near_win_reward(target, Unmoved(board)) = Zero


------------------------------------------------------------------------------
(* Termination of connection discovery, checked under DiscoveryFairSpec *)

\* C20: discovery always returns; its result is None or the non-empty
\* address of a status-200 response; discovery ends with the address only at
\* a poll the ready endpoint answers, and ends with None only once the
\* deadline has passed, at no poll: a poll that raises, gets a non-200 status
\* or a null or empty address leaves discovery running.
C20_DiscoveryTerminates ==
  /\ <>Returned
  /\ [](cdp_url \in {"pending", "None", Addr})
  /\ [][cdp_url' # cdp_url =>
          /\ cdp_url = "pending"
          /\ \/ cdp_url' = Addr /\ EndpointReady /\ polls' = polls + 1
             \/ cdp_url' = "None" /\ now >= timeout_sec /\ polls' = polls]_vars

\* the address was returned by the third poll, after two polls that found
\* nothing and took their time
C20_Witness ==
  /\ cdp_url = Addr /\ ready_after = {2} /\ polls = 3
  /\ responded /\ now > 2 * poll_interval_sec


------------------------------------------------------------------------------
(* Properties of the scenario registry, checked under RegistrySpec *)

\* the positions of env_scenarios that register the name
RegisteredAt(name) ==
  {i \in 1 .. Len(env_scenarios) : env_scenarios[i].name = name}

\* C21 as stated: every scenario name the test script invokes is a key of
\* the registry after the startup registration, is registered exactly once,
\* and accepts the named parameters the test passes to it.
C21_TestScenariosRegistered ==
  \A k \in 1 .. Len(tasks) :
    /\ Cardinality(RegisteredAt(tasks[k].name)) = 1
    /\ \A i \in RegisteredAt(tasks[k].name) :
         tasks[k].args \subseteq env_scenarios[i].params

====
